---------------------------- MODULE Spec2Model ----------------------------
(***************************************************************************)
(* A model of mathematics_dataset/util/probability.py: events, probability *)
(* spaces and random variables over finite sample spaces, with exact       *)
(* rational arithmetic.                                                    *)
(*                                                                         *)
(* Python objects are modelled as records, dictionaries as functions (or,  *)
(* where the iteration order is visible in a result, as sequences of       *)
(* <<key, value>> pairs), lists and tuples as sequences, sets as sets.     *)
(* An optional value (None or an object) is a sequence of length 0 or 1.   *)
(* A sympy number is a pair <<numerator, denominator>> in lowest terms;    *)
(* <<0, 0>> is sympy's nan and <<1, 0>> sympy's zoo (complex infinity).    *)
(***************************************************************************)
EXTENDS Integers, Sequences, FiniteSets, TLC

VARIABLES
    event,      \* the Event object of the query (with a level set's stored list)
    space,      \* the ProbabilitySpace object of the query: a record of its fields
    heap,       \* the component space objects a product space refers to, by index
    args,       \* the arguments of the constructor call, or of the call before an inverse
    rv,         \* the RandomVariable object(s)
    result,     \* what the last call returned or raised
    calls,      \* how many all_sequences() calls the event has served
    pc          \* the last operation and the branch it took

vars == <<event, space, heap, args, rv, result, calls, pc>>

(***************************************************************************)
(* Bounds of the model.                                                    *)
(***************************************************************************)
MaxTotal == 4      \* largest sum of the counts of an enumerated level set
MaxW == 2          \* largest raw weight
MaxCalls == 3      \* all_sequences() calls on one event
MaxLen == 3        \* longest sequence of a queried event
MaxArity == 2      \* most components of a product random variable

Values == {"A", "B", "C"}

None == <<>>
Some(x) == <<x>>

NoEvent == [kind |-> "none"]
NoSpace == [kind |-> "none"]
NoRV == [kind |-> "none"]
NoArgs == [kind |-> "none"]
NoResult == [tag |-> "none"]

Returned(v) == [tag |-> "value", val |-> v]
Raised(e) == [tag |-> e]

(***************************************************************************)
(* Exact rational arithmetic (sympy.Rational and Python int).              *)
(***************************************************************************)
Abs(x) == IF x < 0 THEN -x ELSE x

RECURSIVE Gcd(_, _)
Gcd(a, b) == IF b = 0 THEN a ELSE Gcd(b, a % b)

NaN == <<0, 0>>
Zoo == <<1, 0>>
Zero == <<0, 1>>
One == <<1, 1>>

IsNumber(r) == r[2] # 0

\* sympy.Rational(p, q): lowest terms, positive denominator; 0/0 is nan and
\* p/0 is zoo (sympy raises nothing by default).
Rational(p, q) ==
    IF q = 0 THEN (IF p = 0 THEN NaN ELSE Zoo)
    ELSE LET g == Gcd(Abs(p), Abs(q))
             s == IF q < 0 THEN -1 ELSE 1
         IN  <<(s * p) \div g, (s * q) \div g>>

RAdd(a, b) ==
    IF a = NaN \/ b = NaN THEN NaN
    ELSE IF a = Zoo /\ b = Zoo THEN NaN
    ELSE IF a = Zoo \/ b = Zoo THEN Zoo
    ELSE Rational(a[1] * b[2] + b[1] * a[2], a[2] * b[2])

RNeg(a) == IF IsNumber(a) THEN <<-a[1], a[2]>> ELSE a

RSub(a, b) == RAdd(a, RNeg(b))

RMul(a, b) ==
    IF a = NaN \/ b = NaN THEN NaN
    ELSE IF a = Zoo \/ b = Zoo
         THEN (IF a = Zero \/ b = Zero THEN NaN ELSE Zoo)
    ELSE Rational(a[1] * b[1], a[2] * b[2])

RDiv(a, b) ==
    IF a = NaN \/ b = NaN THEN NaN
    ELSE IF b = Zoo THEN (IF a = Zoo THEN NaN ELSE Zero)
    ELSE IF a = Zoo THEN Zoo
    ELSE Rational(a[1] * b[2], a[2] * b[1])

\* pow(base, k) for an int k >= 0; x**0 is 1 for every x (nan included).
RECURSIVE RPow(_, _)
RPow(a, k) == IF k = 0 THEN One ELSE RMul(a, RPow(a, k - 1))

RLe(a, b) == IsNumber(a) /\ IsNumber(b) /\ a[1] * b[2] <= b[1] * a[2]
RLt(a, b) == IsNumber(a) /\ IsNumber(b) /\ a[1] * b[2] < b[1] * a[2]

RECURSIVE Factorial(_)
Factorial(n) == IF n = 0 THEN 1 ELSE n * Factorial(n - 1)

(***************************************************************************)
(* Sequence helpers.                                                       *)
(***************************************************************************)
RECURSIVE SeqSum(_)
SeqSum(s) == IF s = <<>> THEN 0 ELSE Head(s) + SeqSum(Tail(s))

Range(s) == {s[i] : i \in DOMAIN s}

\* All sequences over S of length at most n.
SeqsUpTo(S, n) == UNION {[1..k -> S] : k \in 0..n}

\* len(sequence) != len(set(sequence))
HasRepeat(s) == Len(s) # Cardinality(Range(s))

(***************************************************************************)
(* CountLevelSetEvent.                                                     *)
(* counts is the dict as the sequence of its <<value, count>> items, in    *)
(* the dict's iteration order; all_sequences is the field _all_sequences.  *)
(***************************************************************************)
CountLevelSetEvent(counts) ==
    [kind |-> "CountLevelSetEvent", counts |-> counts, all_sequences |-> None]

Keys(counts) == [i \in DOMAIN counts |-> counts[i][1]]
CountValues(counts) == [i \in DOMAIN counts |-> counts[i][2]]

InCache(cache, counts) == \E e \in cache : e[1] = counts
CacheGet(cache, counts) == (CHOOSE e \in cache : e[1] = counts)[2]

\* The nested function generate of all_sequences, with its dictionary cache
\* (a set of <<counts tuple, list>> pairs) threaded through the recursion.
RECURSIVE generate(_, _, _)
RECURSIVE generate_loop(_, _, _, _, _)

\* generate with its cache keyed by sum(counts) instead of the counts tuple.
generate_keyed_by_sum(labels, counts, cache) ==
    IF SeqSum(counts) = 0 THEN [gen |-> << <<>> >>, cache |-> cache]
    ELSE IF InCache(cache, SeqSum(counts))
         THEN [gen |-> CacheGet(cache, SeqSum(counts)), cache |-> cache]
    ELSE LET r == generate_loop(labels, counts, 1, <<>>, cache)
         IN  [gen |-> r.gen, cache |-> r.cache \cup {<<SeqSum(counts), r.gen>>}]

generate(labels, counts, cache) ==
    IF SeqSum(counts) = 0 THEN [gen |-> << <<>> >>, cache |-> cache]
    ELSE IF InCache(cache, counts)
         THEN [gen |-> CacheGet(cache, counts), cache |-> cache]
    ELSE LET r == generate_loop(labels, counts, 1, <<>>, cache)
         IN  [gen |-> r.gen, cache |-> r.cache \cup {<<counts, r.gen>>}]

generate_loop(labels, counts, i, generated, cache) ==
    IF i > Len(counts) THEN [gen |-> generated, cache |-> cache]
    ELSE IF counts[i] = 0
         THEN generate_loop(labels, counts, i + 1, generated, cache)
    ELSE LET counts_minus == [counts EXCEPT ![i] = @ - 1]
             ext == generate(labels, counts_minus, cache)
             new == [k \in 1..Len(ext.gen) |-> <<labels[i]>> \o ext.gen[k]]
         IN  generate_loop(labels, counts, i + 1, generated \o new, ext.cache)

\* all_sequences() without the `is None` test: every call builds and stores.
AllSequencesCallAlwaysBuilds(ev) ==
    LET gen == generate(Keys(ev.counts), CountValues(ev.counts), {}).gen
    IN  [event |-> [ev EXCEPT !.all_sequences = Some(gen)],
         ret |-> gen, built |-> TRUE]

\* A call of all_sequences(): the event after it, the list it returns, and
\* whether the body of `if self._all_sequences is None` ran.
AllSequencesCall(ev) ==
    IF ev.all_sequences = None
    THEN LET gen == generate(Keys(ev.counts), CountValues(ev.counts), {}).gen
         IN  [event |-> [ev EXCEPT !.all_sequences = Some(gen)],
              ret |-> gen, built |-> TRUE]
    ELSE [event |-> ev, ret |-> ev.all_sequences[1], built |-> FALSE]

\* Dictionaries of counts: distinct keys, counts summing to at most n.
CountsDicts(keys, n) ==
    {c \in SeqsUpTo(keys \X (0..n), Cardinality(keys)) :
        /\ \A i, j \in DOMAIN c : i # j => c[i][1] # c[j][1]
        /\ SeqSum(CountValues(c)) <= n}

InitCountLevelSet ==
    /\ event \in {CountLevelSetEvent(c) : c \in CountsDicts(Values, MaxTotal)}
    /\ space = NoSpace
    /\ heap = <<>>
    /\ args = NoArgs
    /\ rv = NoRV
    /\ result = NoResult
    /\ calls = 0
    /\ pc = "init"

\* event.all_sequences()
AllSequences ==
    /\ event.kind = "CountLevelSetEvent"
    /\ calls < MaxCalls
    /\ calls' = calls + 1
    /\ LET call == AllSequencesCall(event)
       IN  /\ event' = call.event
           /\ result' = Returned(call.ret)
           /\ pc' = IF call.built THEN "generated" ELSE "stored"
    /\ UNCHANGED <<space, heap, args, rv>>

NextCountLevelSet == AllSequences

SpecCountLevelSet == InitCountLevelSet /\ [][NextCountLevelSet]_vars

\* The arrangements of the multiset counts: the sequences of length
\* sum(counts) that hold each key exactly its count of times.
Arrangements(counts) ==
    LET n == SeqSum(CountValues(counts))
    IN  {s \in [1..n -> Range(Keys(counts))] :
            \A i \in DOMAIN counts :
                Cardinality({j \in 1..n : s[j] = counts[i][1]}) = counts[i][2]}

RECURSIVE FactorialProduct(_)
FactorialProduct(s) ==
    IF s = <<>> THEN 1 ELSE Factorial(Head(s)) * FactorialProduct(Tail(s))

Multinomial(counts) ==
    Factorial(SeqSum(CountValues(counts))) \div FactorialProduct(CountValues(counts))

\* C1: all_sequences() returns exactly the distinct arrangements of the
\* multiset counts: every arrangement and nothing else, none twice, so
\* their number is the multinomial coefficient of the counts.
C1_AllSequencesAreTheArrangements ==
    pc \in {"generated", "stored"} =>
        /\ Range(result.val) = Arrangements(event.counts)
        /\ Len(result.val) = Cardinality(Range(result.val))
        /\ Len(result.val) = Multinomial(event.counts)
        /\ \A k \in DOMAIN result.val :
               Len(result.val[k]) = SeqSum(CountValues(event.counts))

\* counts {A: 2, B: 2} enumerated: 6 sequences.
C1_Witness ==
    /\ pc = "generated"
    /\ event.counts = << <<"A", 2>>, <<"B", 2>> >>
    /\ Len(result.val) = 6

\* C9: the list is built only by a call that finds the stored result unset;
\* a set stored result never changes and is what every later call returns;
\* no call modifies counts.
C9_BuiltOnceThenReused ==
    [][/\ event'.counts = event.counts
       /\ pc' = "generated" => event.all_sequences = None
       /\ event.all_sequences # None =>
              /\ event'.all_sequences = event.all_sequences
              /\ pc' = "stored"
              /\ result' = Returned(event.all_sequences[1])]_vars

\* A later call on an event whose list is already stored.
C9_Witness ==
    /\ pc = "stored"
    /\ calls > 2
    /\ event.all_sequences # None
    /\ Len(event.all_sequences[1]) > 1

(***************************************************************************)
(* The other events.                                                       *)
(***************************************************************************)
DiscreteEvent(values) == [kind |-> "DiscreteEvent", values |-> values]
FiniteProductEvent(events) == [kind |-> "FiniteProductEvent", events |-> events]
SequenceEvent(sequences) == [kind |-> "SequenceEvent", sequences |-> sequences]

\* itertools.product(*values_list), as the set of the tuples it yields.
RECURSIVE product(_)
product(values_list) ==
    IF values_list = <<>> THEN {<<>>}
    ELSE {<<v>> \o rest : v \in Head(values_list), rest \in product(Tail(values_list))}

\* FiniteProductEvent.all_sequences()
ProductAllSequences(ev) ==
    IF \E i \in DOMAIN ev.events : ev.events[i].kind # "DiscreteEvent"
    THEN Raised("ValueError")
    ELSE Returned(product([i \in DOMAIN ev.events |-> ev.events[i].values]))

\* Some list of the elements of a set (the order a Python set iterates in).
RECURSIVE ListOfSet(_)
ListOfSet(S) ==
    IF S = {} THEN <<>>
    ELSE LET x == CHOOSE x \in S : TRUE IN <<x>> \o ListOfSet(S \ {x})

\* event.all_sequences() on any event: the event after the call and either
\* the sequences as a list in iteration order, or what the call raises
\* (AttributeError for an event without the method).
EventAllSequences(ev) ==
    CASE ev.kind = "CountLevelSetEvent" ->
            LET call == AllSequencesCall(ev)
            IN  [event |-> call.event, out |-> Returned(call.ret)]
      [] ev.kind = "SequenceEvent" ->
            [event |-> ev, out |-> Returned(ListOfSet(ev.sequences))]
      [] ev.kind = "FiniteProductEvent" ->
            LET r == ProductAllSequences(ev)
            IN  [event |-> ev,
                 out |-> IF r.tag = "value" THEN Returned(ListOfSet(r.val)) ELSE r]
      [] OTHER -> [event |-> ev, out |-> Raised("AttributeError")]

(***************************************************************************)
(* normalize_weights and DiscreteProbabilitySpace.                         *)
(* A dict of weights is a function from its keys.                          *)
(***************************************************************************)
RECURSIVE SumOver(_, _)
SumOver(f, S) ==
    IF S = {} THEN 0
    ELSE LET x == CHOOSE x \in S : TRUE IN f[x] + SumOver(f, S \ {x})

\* sum(six.itervalues(weights))
WeightSum(weights) == SumOver(weights, DOMAIN weights)

\* normalize_weights dividing by the number of weights instead of their sum.
normalize_weights_by_len(weights) ==
    [i \in DOMAIN weights |-> Rational(weights[i], Cardinality(DOMAIN weights))]

normalize_weights(weights) ==
    [i \in DOMAIN weights |-> Rational(weights[i], WeightSum(weights))]

DiscreteProbabilitySpace(weights) ==
    [kind |-> "DiscreteProbabilitySpace", weights |-> normalize_weights(weights)]

\* sum(...) of sympy numbers over a set, starting from int 0.
RECURSIVE RSumOver(_, _)
RSumOver(f, S) ==
    IF S = {} THEN Zero
    ELSE LET x == CHOOSE x \in S : TRUE IN RAdd(RSumOver(f, S \ {x}), f[x])

\* DiscreteProbabilitySpace.probability(event)
DiscreteProbability(sp, ev) ==
    IF ev.kind = "DiscreteEvent"
    THEN Returned(RSumOver(sp.weights, {v \in ev.values : v \in DOMAIN sp.weights}))
    ELSE Raised("ValueError")

(***************************************************************************)
(* SampleWithoutReplacementSpace.                                          *)
(***************************************************************************)
\* SampleWithoutReplacementSpace.__init__(weights, n_samples)
SampleWithoutReplacementSpace(weights, n_samples) ==
    IF n_samples > Cardinality(DOMAIN weights)
    THEN Raised("ValueError")
    ELSE Returned([kind |-> "SampleWithoutReplacementSpace",
                   weights |-> normalize_weights(weights),
                   n_samples |-> n_samples])

\* p = self._weights[i] if i in self._weights else 0
WeightOf(weights, i) == IF i \in DOMAIN weights THEN weights[i] ELSE Zero

RECURSIVE sequence_loop(_, _, _, _, _, _)

\* The loop with removed_prob never accumulated (draws with replacement).
sequence_loop_no_removal(weights, sequence, k, p_sequence, removed_prob, divisors) ==
    IF k > Len(sequence) THEN [p |-> p_sequence, divisors |-> divisors]
    ELSE LET p == WeightOf(weights, sequence[k])
         IN  IF p = Zero THEN [p |-> Zero, divisors |-> divisors]
             ELSE sequence_loop(weights, sequence, k + 1,
                                RMul(p_sequence, RDiv(p, RSub(One, removed_prob))),
                                removed_prob,
                                Append(divisors, RSub(One, removed_prob)))

\* The loop `for i in sequence` of probability, from its k-th element on:
\* the final p_sequence, and the divisors (1 - removed_prob) it divided by.
sequence_loop(weights, sequence, k, p_sequence, removed_prob, divisors) ==
    IF k > Len(sequence) THEN [p |-> p_sequence, divisors |-> divisors]
    ELSE LET p == WeightOf(weights, sequence[k])
         IN  IF p = Zero THEN [p |-> Zero, divisors |-> divisors]
             ELSE sequence_loop(weights, sequence, k + 1,
                                RMul(p_sequence, RDiv(p, RSub(One, removed_prob))),
                                RAdd(removed_prob, p),
                                Append(divisors, RSub(One, removed_prob)))

\* One pass of the loop `for sequence in all_sequences`.
SequenceRun(weights, sequence) == sequence_loop(weights, sequence, 1, One, Zero, <<>>)

RECURSIVE probability_sum(_, _, _)
probability_sum(weights, all_sequences, k) ==
    IF k = 0 THEN Zero
    ELSE LET rest == probability_sum(weights, all_sequences, k - 1)
             sequence == all_sequences[k]
         IN  IF HasRepeat(sequence) THEN rest
             ELSE RAdd(rest, SequenceRun(weights, sequence).p)

\* SampleWithoutReplacementSpace.probability(event): the event after the
\* call and what the call returns or raises.
SampleProbability(sp, ev) ==
    LET call == EventAllSequences(ev)
    IN  IF call.out.tag = "AttributeError"
        THEN [event |-> call.event, out |-> Raised("ValueError")]
        ELSE IF call.out.tag # "value" THEN call
        ELSE [event |-> call.event,
              out |-> Returned(probability_sum(sp.weights, call.out.val,
                                               Len(call.out.val)))]

(***************************************************************************)
(* Discrete and without-replacement spaces: construction and queries.      *)
(***************************************************************************)
\* Dictionaries of raw weights over some of the keys.
WeightDicts(keys) == UNION {[K -> 0..MaxW] : K \in SUBSET keys}

ValueOrder == <<"A", "B", "C">>
IndexOf(order, v) == CHOOSE i \in DOMAIN order : order[i] = v

\* Dictionaries of counts whose keys were inserted in the given order.
OrderedCountsDicts(order, n) ==
    {c \in CountsDicts(Range(order), n) :
        \A i, j \in DOMAIN c :
            i < j => IndexOf(order, c[i][1]) < IndexOf(order, c[j][1])}

DiscreteQueryEvents ==
    {DiscreteEvent(S) : S \in SUBSET Values}
        \cup {SequenceEvent({<<"A">>}), CountLevelSetEvent(<< <<"A", 1>> >>)}

SequenceQueryEvents ==
    {SequenceEvent({s}) : s \in SeqsUpTo(Values, MaxLen)}
        \cup {SequenceEvent({})}
        \cup {CountLevelSetEvent(c) : c \in OrderedCountsDicts(ValueOrder, MaxLen)}
        \cup {FiniteProductEvent(<<DiscreteEvent(S), DiscreteEvent(T)>>) :
                 S \in SUBSET Values, T \in SUBSET Values}
        \cup {DiscreteEvent({"A"}),
              FiniteProductEvent(<<DiscreteEvent({"A"}), SequenceEvent({})>>)}

InitSpaces ==
    /\ event = NoEvent
    /\ space = NoSpace
    /\ heap = <<>>
    /\ args = NoArgs
    /\ rv = NoRV
    /\ result = NoResult
    /\ calls = 0
    /\ pc = "init"

\* space = DiscreteProbabilitySpace(weights)
NewDiscreteProbabilitySpace ==
    /\ pc = "init"
    /\ \E weights \in WeightDicts(Values) :
          /\ args' = [weights |-> weights]
          /\ space' = DiscreteProbabilitySpace(weights)
    /\ pc' = "constructed"
    /\ UNCHANGED <<event, heap, rv, result, calls>>

\* space = SampleWithoutReplacementSpace(weights, n_samples)
NewSampleWithoutReplacementSpace ==
    /\ pc = "init"
    /\ \E weights \in WeightDicts(Values), n_samples \in 0..Cardinality(Values) :
          LET made == SampleWithoutReplacementSpace(weights, n_samples)
          IN  /\ args' = [weights |-> weights, n_samples |-> n_samples]
              /\ IF made.tag = "value"
                 THEN space' = made.val /\ result' = NoResult /\ pc' = "constructed"
                 ELSE space' = NoSpace /\ result' = made /\ pc' = "raised"
    /\ UNCHANGED <<event, heap, rv, calls>>

\* space.probability(event) on a DiscreteProbabilitySpace.  A query leaves
\* the space as it is, so one query per constructed space is explored.
DiscreteProbabilityQuery ==
    /\ pc = "constructed"
    /\ space.kind = "DiscreteProbabilitySpace"
    /\ \E ev \in DiscreteQueryEvents :
          /\ event' = ev
          /\ result' = DiscreteProbability(space, ev)
    /\ pc' = "probability"
    /\ UNCHANGED <<space, heap, args, rv, calls>>

\* space.probability(event) on a SampleWithoutReplacementSpace
SampleProbabilityQuery ==
    /\ pc = "constructed"
    /\ space.kind = "SampleWithoutReplacementSpace"
    /\ \E ev \in SequenceQueryEvents :
          LET call == SampleProbability(space, ev)
          IN  /\ event' = call.event
              /\ result' = call.out
              /\ calls' = IF ev.kind = "DiscreteEvent" THEN 0 ELSE 1
    /\ pc' = "probability"
    /\ UNCHANGED <<space, heap, args, rv>>

NextSpaces ==
    \/ NewDiscreteProbabilitySpace
    \/ NewSampleWithoutReplacementSpace
    \/ DiscreteProbabilityQuery
    \/ SampleProbabilityQuery

SpecSpaces == InitSpaces /\ [][NextSpaces]_vars

\* C4: with non-negative weights of positive sum W, the probability of
\* DiscreteEvent(S) is the sum of weight(v) over the values v of S that are
\* keys, divided by W; the normalized weights sum to exactly 1, an event
\* holding every key has probability 1 and the empty event probability 0.
C4_DiscreteProbabilityIsWeightShare ==
    (/\ pc = "probability"
     /\ space.kind = "DiscreteProbabilitySpace"
     /\ event.kind = "DiscreteEvent"
     /\ WeightSum(args.weights) > 0) =>
        /\ result = Returned(Rational(
               SumOver(args.weights, event.values \cap DOMAIN args.weights),
               WeightSum(args.weights)))
        /\ RSumOver(space.weights, DOMAIN space.weights) = One
        /\ DOMAIN args.weights \subseteq event.values => result.val = One
        /\ event.values = {} => result.val = Zero

\* weights {A: 1, B: 2}, event {A, C}: probability 1/3.
C4_Witness ==
    /\ pc = "probability"
    /\ space.kind = "DiscreteProbabilitySpace"
    /\ args.weights = [v \in {"A", "B"} |-> IF v = "A" THEN 1 ELSE 2]
    /\ event = DiscreteEvent({"A", "C"})
    /\ result = Returned(<<1, 3>>)

\* C5: weights summing to zero never yield a space object: normalization
\* fails while the space is being constructed.
C5_ZeroSumNeverConstructs ==
    (pc # "init" /\ WeightSum(args.weights) = 0) => space = NoSpace

\* The sequences an event denotes, stated without the enumeration code.
DenotedSequences(ev) ==
    CASE ev.kind = "CountLevelSetEvent" -> Arrangements(ev.counts)
      [] ev.kind = "SequenceEvent" -> ev.sequences
      [] ev.kind = "FiniteProductEvent" ->
            {s \in [DOMAIN ev.events -> Values] :
                \A i \in DOMAIN ev.events : s[i] \in ev.events[i].values}

\* Sum of the weights of the first k elements of s.
RECURSIVE PrefixWeight(_, _, _)
PrefixWeight(w, s, k) ==
    IF k = 0 THEN Zero ELSE RAdd(PrefixWeight(w, s, k - 1), WeightOf(w, s[k]))

\* Product over i <= k of w(s_i) / (1 - sum of w(s_j) for j < i).
RECURSIVE ConditionalProduct(_, _, _)
ConditionalProduct(w, s, k) ==
    IF k = 0 THEN One
    ELSE RMul(ConditionalProduct(w, s, k - 1),
              RDiv(WeightOf(w, s[k]), RSub(One, PrefixWeight(w, s, k - 1))))

DrawProbability(w, s) ==
    IF HasRepeat(s) \/ \E i \in DOMAIN s : WeightOf(w, s[i]) = Zero
    THEN Zero
    ELSE ConditionalProduct(w, s, Len(s))

RECURSIVE DrawProbabilitySum(_, _)
DrawProbabilitySum(w, S) ==
    IF S = {} THEN Zero
    ELSE LET s == CHOOSE s \in S : TRUE
         IN  RAdd(DrawProbabilitySum(w, S \ {s}), DrawProbability(w, s))

\* C3: the without-replacement probability of an event is the sum over its
\* sequences of 0 for a sequence with a repeated value or a value of zero or
\* undefined weight, and otherwise of the product, left to right, of
\* w(x_i) / (1 - sum of w(x_j) for j < i), w being the normalized weights.
C3_WithoutReplacementSum ==
    (/\ pc = "probability"
     /\ space.kind = "SampleWithoutReplacementSpace"
     /\ result.tag = "value") =>
        result.val = DrawProbabilitySum(space.weights, DenotedSequences(event))

\* weights {A: 1, B: 1, C: 1}, n_samples 2, one A and one B: 1/3.
C3_Witness ==
    /\ pc = "probability"
    /\ space.kind = "SampleWithoutReplacementSpace"
    /\ args = [weights |-> [v \in Values |-> 1], n_samples |-> 2]
    /\ event.kind = "CountLevelSetEvent"
    /\ event.counts = << <<"A", 1>>, <<"B", 1>> >>
    /\ result = Returned(<<1, 3>>)

\* The sequences the loop of probability runs its inner loop on.
ProcessedSequences(ev) ==
    {s \in Range(EventAllSequences(ev).out.val) : ~HasRepeat(s)}

DivisorsPositive(w, s) ==
    LET run == SequenceRun(w, s)
    IN  /\ \A k \in DOMAIN run.divisors : RLt(Zero, run.divisors[k])
        /\ RLe(Zero, run.p)
        /\ RLe(run.p, One)

\* C10: in every without-replacement query, every divisor (1 - removed_prob)
\* of every processed sequence is strictly positive, and every per-sequence
\* probability lies in [0, 1].
C10_DivisorAlwaysPositive ==
    (/\ pc = "probability"
     /\ space.kind = "SampleWithoutReplacementSpace"
     /\ result.tag = "value") =>
        \A s \in ProcessedSequences(event) : DivisorsPositive(space.weights, s)

\* The same, for the spaces whose raw weights have a positive sum.
DivisorPositiveOnPositiveSum ==
    (/\ pc = "probability"
     /\ space.kind = "SampleWithoutReplacementSpace"
     /\ result.tag = "value"
     /\ WeightSum(args.weights) > 0) =>
        \A s \in ProcessedSequences(event) : DivisorsPositive(space.weights, s)

(***************************************************************************)
(* FiniteProductSpace.  Its list _spaces holds references to space         *)
(* objects: indices into heap.  No space class defines __eq__, so == on    *)
(* two spaces is object identity.                                          *)
(***************************************************************************)
FiniteProductSpace(spaces) == [kind |-> "FiniteProductSpace", spaces |-> spaces]

\* all_spaces_equal comparing the spaces' weight dicts instead of the objects.
all_spaces_equal_by_weights(h, sp) ==
    \A i \in DOMAIN sp.spaces : h[sp.spaces[1]].weights = h[sp.spaces[i]].weights

\* FiniteProductSpace.all_spaces_equal(): the comparison list is empty, and
\* all() of it true, for an empty list of spaces.
all_spaces_equal(h, sp) ==
    \A i \in DOMAIN sp.spaces : sp.spaces[1] = sp.spaces[i]

\* sympy.prod of a list of sympy numbers.
RECURSIVE RProd(_)
RProd(s) == IF s = <<>> THEN One ELSE RMul(Head(s), RProd(Tail(s)))

\* The coefficient with the counts themselves in place of their factorials.
coeff_without_factorials(counts) ==
    RDiv(<<Factorial(SeqSum(CountValues(counts))), 1>>,
         RProd([i \in DOMAIN counts |-> <<counts[i][2], 1>>]))

\* coeff = factorial(num_events) / prod(factorial(i) for i in counts.values())
coeff(counts) ==
    RDiv(<<Factorial(SeqSum(CountValues(counts))), 1>>,
         RProd([i \in DOMAIN counts |-> <<Factorial(counts[i][2]), 1>>]))

\* The branch of probability for a CountLevelSetEvent over equal spaces;
\* `space = self._spaces[0]` raises IndexError for an empty list of spaces.
multinomial(h, sp, ev) ==
    LET space0 == h[sp.spaces[1]]
        counts == ev.counts
        probabilities == [i \in DOMAIN counts |->
            DiscreteProbability(space0, DiscreteEvent({counts[i][1]})).val]
        num_events == SeqSum(CountValues(counts))
    IN  IF sp.spaces = <<>> THEN Raised("IndexError")
        ELSE IF num_events # Len(sp.spaces) THEN Raised("AssertionError")
        ELSE Returned(RMul(coeff(counts),
                 RProd([i \in DOMAIN counts |->
                            RPow(probabilities[i], counts[i][2])])))

\* The branch of probability for a FiniteProductEvent.
product_of_slices(h, sp, ev) ==
    IF Len(sp.spaces) # Len(ev.events) THEN Raised("AssertionError")
    ELSE LET slices == [i \in DOMAIN sp.spaces |->
                 DiscreteProbability(h[sp.spaces[i]], ev.events[i])]
         IN  IF \E i \in DOMAIN slices : slices[i].tag # "value"
             THEN Raised("ValueError")
             ELSE Returned(RProd([i \in DOMAIN slices |-> slices[i].val]))

\* FiniteProductSpace.probability(event): the branch taken and its outcome.
ProductProbability(h, sp, ev) ==
    IF ev.kind = "FiniteProductEvent"
    THEN [branch |-> "product", out |-> product_of_slices(h, sp, ev)]
    ELSE IF ev.kind = "CountLevelSetEvent" /\ all_spaces_equal(h, sp)
    THEN [branch |-> "multinomial", out |-> multinomial(h, sp, ev)]
    ELSE [branch |-> "unhandled", out |-> Raised("ValueError")]

\* Weight dicts of the separately constructed component spaces.
CoinDicts == [{"A", "B"} -> {1, 2}]

ProductQueryEvents ==
    {CountLevelSetEvent(c) : c \in OrderedCountsDicts(ValueOrder, MaxLen)}
        \cup {FiniteProductEvent(es) :
                 es \in SeqsUpTo({DiscreteEvent({"A"}), DiscreteEvent({"A", "B"})},
                                 MaxLen)}
        \cup {FiniteProductEvent(<<SequenceEvent({})>>),
              SequenceEvent({<<"A">>}), DiscreteEvent({"A"})}

\* space = FiniteProductSpace([DiscreteProbabilitySpace(weights)] * n)
NewProductOfCopies ==
    /\ pc = "init"
    /\ \E weights \in WeightDicts(Values), n \in 0..MaxLen :
          /\ args' = [weights |-> <<weights>>]
          /\ heap' = <<DiscreteProbabilitySpace(weights)>>
          /\ space' = FiniteProductSpace([i \in 1..n |-> 1])
    /\ pc' = "constructed"
    /\ UNCHANGED <<event, rv, result, calls>>

\* Two DiscreteProbabilitySpace objects, constructed separately, and a
\* FiniteProductSpace over a list of references to them.
NewProductOfObjects ==
    /\ pc = "init"
    /\ \E w1 \in CoinDicts, w2 \in CoinDicts, spaces \in SeqsUpTo({1, 2}, MaxLen) :
          /\ args' = [weights |-> <<w1, w2>>]
          /\ heap' = <<DiscreteProbabilitySpace(w1), DiscreteProbabilitySpace(w2)>>
          /\ space' = FiniteProductSpace(spaces)
    /\ pc' = "constructed"
    /\ UNCHANGED <<event, rv, result, calls>>

\* space.probability(event) on a FiniteProductSpace; pc records the branch.
ProductProbabilityQuery ==
    /\ pc = "constructed"
    /\ space.kind = "FiniteProductSpace"
    /\ \E ev \in ProductQueryEvents :
          LET call == ProductProbability(heap, space, ev)
          IN  /\ event' = ev
              /\ result' = call.out
              /\ pc' = call.branch
    /\ UNCHANGED <<space, heap, args, rv, calls>>

NextProduct ==
    \/ NewProductOfCopies
    \/ NewProductOfObjects
    \/ ProductProbabilityQuery

SpecProduct == InitSpaces /\ [][NextProduct]_vars

\* Probability of one sequence of independent draws from a space with the
\* given normalized weights (a value that is no key has probability 0).
RECURSIVE IndependentDraws(_, _)
IndependentDraws(w, s) ==
    IF s = <<>> THEN One
    ELSE RMul(WeightOf(w, Head(s)), IndependentDraws(w, Tail(s)))

RECURSIVE BruteForce(_, _)
BruteForce(w, sequences) ==
    IF sequences = <<>> THEN Zero
    ELSE RAdd(IndependentDraws(w, Head(sequences)), BruteForce(w, Tail(sequences)))

SameObjectEverywhere == \A i \in DOMAIN space.spaces : space.spaces[i] = space.spaces[1]

\* C2: for a product of n >= 1 references to one DiscreteProbabilitySpace
\* and a CountLevelSetEvent whose counts sum to n, probability(event) is the
\* sum over the sequences of event.all_sequences() of the product of the
\* per-draw probabilities of their elements.
C2_MultinomialMatchesBruteForce ==
    (/\ space.kind = "FiniteProductSpace"
     /\ event.kind = "CountLevelSetEvent"
     /\ Len(space.spaces) >= 1
     /\ SameObjectEverywhere
     /\ SeqSum(CountValues(event.counts)) = Len(space.spaces)) =>
        result = Returned(BruteForce(heap[space.spaces[1]].weights,
                                     AllSequencesCall(event).ret))

\* weights {A: 1, B: 1}, n = 3, counts {A: 2, B: 1}: 3/8.
C2_Witness ==
    /\ pc = "multinomial"
    /\ args.weights = <<[v \in {"A", "B"} |-> 1]>>
    /\ space.spaces = <<1, 1, 1>>
    /\ event.counts = << <<"A", 2>>, <<"B", 1>> >>
    /\ result = Returned(<<3, 8>>)

StructurallyEqualEverywhere ==
    \A i \in DOMAIN space.spaces :
        heap[space.spaces[i]].weights = heap[space.spaces[1]].weights

\* C6: on a CountLevelSetEvent the multinomial shortcut is taken whenever
\* the component spaces have equal weight mappings, and 'unhandled event
\* type' is raised only when some component's mapping differs from the first.
C6_ShortcutOnStructuralEquality ==
    (/\ space.kind = "FiniteProductSpace"
     /\ event.kind = "CountLevelSetEvent") =>
        /\ StructurallyEqualEverywhere => pc = "multinomial"
        /\ pc = "unhandled" => ~StructurallyEqualEverywhere

\* C6 as amended: on a CountLevelSetEvent the shortcut is taken exactly when
\* every entry of the list of spaces is the same object as the first, and
\* 'unhandled event type' is raised exactly when some entry is another
\* object, equal weights or not.
C6_ShortcutOnSameObject ==
    (/\ space.kind = "FiniteProductSpace"
     /\ event.kind = "CountLevelSetEvent") =>
        /\ pc = "multinomial" <=> SameObjectEverywhere
        /\ (pc = "unhandled" /\ result = Raised("ValueError")) <=> ~SameObjectEverywhere

\* Two distinct space objects with equal weights: the query is unhandled.
C6_Witness ==
    /\ pc = "unhandled"
    /\ event.kind = "CountLevelSetEvent"
    /\ space.spaces = <<1, 2>>
    /\ heap[1].weights = heap[2].weights
    /\ result = Raised("ValueError")

(***************************************************************************)
(* Random variables.                                                       *)
(***************************************************************************)
Colors == {"red", "white"}

IdentityRandomVariable == [kind |-> "IdentityRandomVariable"]

RECURSIVE build_inverse(_, _, _)

\* The constructor's loop assigning set([key]) even when the value is known.
build_inverse_overwriting(mapping, keys, inverse) ==
    IF keys = {} THEN inverse
    ELSE LET key == CHOOSE k \in keys : TRUE
             value == mapping[key]
         IN  build_inverse(mapping, keys \ {key},
                 [v \in DOMAIN inverse \cup {value} |->
                     IF v = value THEN {key} ELSE inverse[v]])

\* The loop of DiscreteRandomVariable.__init__ over the items not yet seen.
build_inverse(mapping, keys, inverse) ==
    IF keys = {} THEN inverse
    ELSE LET key == CHOOSE k \in keys : TRUE
             value == mapping[key]
         IN  build_inverse(mapping, keys \ {key},
                 [v \in DOMAIN inverse \cup {value} |->
                     IF v = value
                     THEN (IF value \in DOMAIN inverse
                           THEN inverse[value] \cup {key} ELSE {key})
                     ELSE inverse[v]])

DiscreteRandomVariable(mapping) ==
    [kind |-> "DiscreteRandomVariable",
     mapping |-> mapping,
     inverse |-> build_inverse(mapping, DOMAIN mapping, <<>>)]

FiniteProductRandomVariable(random_variables) ==
    [kind |-> "FiniteProductRandomVariable", random_variables |-> random_variables]

\* DiscreteRandomVariable.__call__(event)
DiscreteCall(r, ev) ==
    IF ev.kind # "DiscreteEvent" THEN Raised("ValueError")
    ELSE IF \E value \in ev.values : value \notin DOMAIN r.mapping
    THEN Raised("KeyError")
    ELSE Returned(DiscreteEvent({r.mapping[value] : value \in ev.values}))

\* DiscreteRandomVariable.inverse(event)
DiscreteInverse(r, ev) ==
    IF ev.kind # "DiscreteEvent" THEN Raised("ValueError")
    ELSE Returned(DiscreteEvent(
             UNION {r.inverse[value] : value \in ev.values \cap DOMAIN r.inverse}))

\* __call__ of a component random variable (identity or discrete).
ComponentCall(r, ev) ==
    IF r.kind = "IdentityRandomVariable" THEN Returned(ev) ELSE DiscreteCall(r, ev)

\* inverse of a component random variable (identity or discrete).
ComponentInverse(r, ev) ==
    IF r.kind = "IdentityRandomVariable" THEN Returned(ev) ELSE DiscreteInverse(r, ev)

\* A list of component outcomes as one outcome: the first exception raised,
\* or the FiniteProductEvent of the returned events.
FirstRaised(outs) ==
    outs[CHOOSE i \in DOMAIN outs :
            /\ outs[i].tag # "value"
            /\ \A j \in 1..(i - 1) : outs[j].tag = "value"]

ProductOfOutcomes(outs) ==
    IF \E i \in DOMAIN outs : outs[i].tag # "value"
    THEN FirstRaised(outs)
    ELSE Returned(FiniteProductEvent([i \in DOMAIN outs |-> outs[i].val]))

\* FiniteProductRandomVariable.__call__(event)
ProductCall(r, ev) ==
    IF ev.kind # "FiniteProductEvent" THEN Raised("ValueError")
    ELSE IF Len(ev.events) # Len(r.random_variables) THEN Raised("AssertionError")
    ELSE ProductOfOutcomes([i \in DOMAIN ev.events |->
             ComponentCall(r.random_variables[i], ev.events[i])])

\* mapped_sequence.all_sequences() for one sequence of the event.
mapped_sequence(r, sequence) ==
    ProductAllSequences(FiniteProductEvent([i \in DOMAIN sequence |->
        ComponentInverse(r.random_variables[i], DiscreteEvent({sequence[i]})).val])).val

RECURSIVE inverse_fallback(_, _, _)

\* The loop keeping only the last sequence's product (= in place of update).
inverse_fallback_last_only(r, all_sequences, k) ==
    IF k = 0 THEN Returned({})
    ELSE LET before == inverse_fallback(r, all_sequences, k - 1)
         IN  IF before.tag # "value" THEN before
             ELSE IF Len(all_sequences[k]) # Len(r.random_variables)
             THEN Raised("AssertionError")
             ELSE Returned(mapped_sequence(r, all_sequences[k]))

\* The loop `for sequence in all_sequences` of inverse over the first k
\* sequences: the set mapped, or the assertion that failed.
inverse_fallback(r, all_sequences, k) ==
    IF k = 0 THEN Returned({})
    ELSE LET before == inverse_fallback(r, all_sequences, k - 1)
         IN  IF before.tag # "value" THEN before
             ELSE IF Len(all_sequences[k]) # Len(r.random_variables)
             THEN Raised("AssertionError")
             ELSE Returned(before.val \cup mapped_sequence(r, all_sequences[k]))

\* FiniteProductRandomVariable.inverse(event): the event after the call and
\* the outcome.
ProductInverse(r, ev) ==
    IF ev.kind = "FiniteProductEvent"
    THEN [event |-> ev,
          out |-> IF Len(ev.events) # Len(r.random_variables)
                  THEN Raised("AssertionError")
                  ELSE ProductOfOutcomes([i \in DOMAIN ev.events |->
                           ComponentInverse(r.random_variables[i], ev.events[i])])]
    ELSE LET call == EventAllSequences(ev)
         IN  IF call.out.tag = "AttributeError"
             THEN [event |-> call.event, out |-> Raised("ValueError")]
             ELSE LET mapped == inverse_fallback(r, call.out.val, Len(call.out.val))
                  IN  [event |-> call.event,
                       out |-> IF mapped.tag = "value"
                               THEN Returned(SequenceEvent(mapped.val))
                               ELSE mapped]

\* random_variable(event)
Call(r, ev) ==
    IF r.kind = "FiniteProductRandomVariable" THEN ProductCall(r, ev)
    ELSE ComponentCall(r, ev)

\* random_variable.inverse(event)
Inverse(r, ev) ==
    IF r.kind = "FiniteProductRandomVariable" THEN ProductInverse(r, ev)
    ELSE [event |-> ev, out |-> ComponentInverse(r, ev)]

\* Dictionaries a DiscreteRandomVariable is built from.
Mappings == UNION {[K -> Colors] : K \in SUBSET Values}

\* Components of a product random variable.
Components ==
    {IdentityRandomVariable} \cup {DiscreteRandomVariable(m) : m \in [Values -> Colors]}

\* Elements of the sequences of events in the sample space.
OutcomeOrder == <<"red", "white", "A">>
Outcomes == Range(OutcomeOrder)

CallEvents ==
    {DiscreteEvent(S) : S \in SUBSET Values}
        \cup {FiniteProductEvent(es) :
                 es \in SeqsUpTo({DiscreteEvent({"A"}), DiscreteEvent({"A", "B"})},
                                 MaxArity)}
        \cup {SequenceEvent({<<"A">>})}

InverseEvents ==
    {DiscreteEvent(S) : S \in SUBSET Outcomes}
        \cup {SequenceEvent({s}) : s \in SeqsUpTo(Outcomes, MaxArity)}
        \cup {SequenceEvent({})}
        \cup {CountLevelSetEvent(c) : c \in OrderedCountsDicts(OutcomeOrder, MaxArity)}
        \cup {FiniteProductEvent(es) :
                 es \in SeqsUpTo({DiscreteEvent({"red"}), DiscreteEvent({"red", "white"})},
                                 MaxArity)}

\* rv = DiscreteRandomVariable(mapping)
NewDiscreteRandomVariable ==
    /\ pc = "init"
    /\ \E mapping \in Mappings : rv' = DiscreteRandomVariable(mapping)
    /\ pc' = "constructed"
    /\ UNCHANGED <<event, space, heap, args, result, calls>>

\* rv = IdentityRandomVariable()
NewIdentityRandomVariable ==
    /\ pc = "init"
    /\ rv' = IdentityRandomVariable
    /\ pc' = "constructed"
    /\ UNCHANGED <<event, space, heap, args, result, calls>>

\* rv = FiniteProductRandomVariable(random_variables)
NewFiniteProductRandomVariable ==
    /\ pc = "init"
    /\ \E random_variables \in SeqsUpTo(Components, MaxArity) :
          rv' = FiniteProductRandomVariable(random_variables)
    /\ pc' = "constructed"
    /\ UNCHANGED <<event, space, heap, args, result, calls>>

\* event = rv(event): args keeps the event passed in, event the image.
RVCall ==
    /\ pc = "constructed"
    /\ rv.kind # "none"
    /\ \E ev \in CallEvents :
          LET out == Call(rv, ev)
          IN  /\ args' = [event |-> ev]
              /\ result' = out
              /\ IF out.tag = "value"
                 THEN event' = out.val /\ pc' = "called"
                 ELSE event' = ev /\ pc' = "raised"
    /\ UNCHANGED <<space, heap, rv, calls>>

\* rv.inverse(event) on an event of the sample space.
RVInverse ==
    /\ pc = "constructed"
    /\ rv.kind # "none"
    /\ \E ev \in InverseEvents :
          LET call == Inverse(rv, ev)
          IN  /\ event' = call.event
              /\ result' = call.out
              /\ calls' = IF /\ rv.kind = "FiniteProductRandomVariable"
                             /\ ev.kind \in {"CountLevelSetEvent", "SequenceEvent"}
                          THEN 1 ELSE 0
    /\ pc' = "inverse"
    /\ UNCHANGED <<space, heap, args, rv>>

\* rv.inverse(rv(event)): the inverse of the image a call just returned.
RVInverseOfImage ==
    /\ pc = "called"
    /\ result' = Inverse(rv, event).out
    /\ pc' = "round_trip"
    /\ UNCHANGED <<event, space, heap, args, rv, calls>>

NextRandomVariables ==
    \/ NewDiscreteRandomVariable
    \/ NewIdentityRandomVariable
    \/ NewFiniteProductRandomVariable
    \/ RVCall
    \/ RVInverse
    \/ RVInverseOfImage

SpecRandomVariables == InitSpaces /\ [][NextRandomVariables]_vars

\* C7: for a DiscreteRandomVariable of mapping m and a DiscreteEvent E of
\* keys of m, inverse(forward(E)) is the DiscreteEvent of all keys k of m
\* with m[k] in the image of E; it holds every value of E.
C7_InverseOfForward ==
    (/\ pc = "round_trip"
     /\ rv.kind = "DiscreteRandomVariable"
     /\ args.event.kind = "DiscreteEvent"
     /\ args.event.values \subseteq DOMAIN rv.mapping) =>
        /\ result = Returned(DiscreteEvent(
               {k \in DOMAIN rv.mapping :
                   \E v \in args.event.values : rv.mapping[k] = rv.mapping[v]}))
        /\ args.event.values \subseteq result.val.values

\* m = {A: red, B: red, C: white}, E = {A}: the round trip gives {A, B}.
C7_Witness ==
    /\ pc = "round_trip"
    /\ rv.kind = "DiscreteRandomVariable"
    /\ rv.mapping = [v \in Values |-> IF v = "C" THEN "white" ELSE "red"]
    /\ args.event = DiscreteEvent({"A"})
    /\ result = Returned(DiscreteEvent({"A", "B"}))

\* The preimage of one outcome under a component random variable.
Preimage(r, x) ==
    IF r.kind = "IdentityRandomVariable" THEN {x}
    ELSE {k \in DOMAIN r.mapping : r.mapping[k] = x}

\* C8: for a product random variable of arity n and a CountLevelSetEvent or
\* SequenceEvent whose sequences have length n, inverse(event) is the
\* SequenceEvent of the union, over the sequences s of the event, of the
\* cartesian product of the component preimages of s_1, ..., s_n.
C8_InverseFallbackIsUnionOfProducts ==
    (/\ pc = "inverse"
     /\ rv.kind = "FiniteProductRandomVariable"
     /\ event.kind \in {"CountLevelSetEvent", "SequenceEvent"}
     /\ \A s \in DenotedSequences(event) : Len(s) = Len(rv.random_variables)) =>
        result = Returned(SequenceEvent(
            {t \in [DOMAIN rv.random_variables -> Values \cup Outcomes] :
                \E s \in DenotedSequences(event) :
                    \A i \in DOMAIN t : t[i] \in Preimage(rv.random_variables[i], s[i])}))

\* Components (A, B -> red; C -> white) and identity, one red and one A in
\* either order: only (red, A) has preimages, (A, A) and (B, A).
C8_Witness ==
    /\ pc = "inverse"
    /\ rv.kind = "FiniteProductRandomVariable"
    /\ Len(rv.random_variables) = 2
    /\ rv.random_variables[1].kind = "DiscreteRandomVariable"
    /\ rv.random_variables[1].mapping = [v \in Values |-> IF v = "C" THEN "white" ELSE "red"]
    /\ rv.random_variables[2] = IdentityRandomVariable
    /\ event.kind = "CountLevelSetEvent"
    /\ event.counts = << <<"red", 1>>, <<"A", 1>> >>
    /\ result = Returned(SequenceEvent({<<"A", "A">>, <<"B", "A">>}))

=============================================================================
